---- MODULE Spec2Model ----
(***************************************************************************)
(* Model of the local RAG application: the chunker                         *)
(* (document_processor.py), the ingestion loop and the Ask handler         *)
(* (app.py), the vector store wrapper (vectorstore.py) and the streaming   *)
(* generator and prompt builder (embedding.py).                            *)
(*                                                                         *)
(* A text is a sequence of characters; a character is a natural number.    *)
(* Characters 0 (space) and 1 (newline) are whitespace, every other        *)
(* number is a printing character.                                         *)
(***************************************************************************)
EXTENDS Integers, Sequences, FiniteSets, TLC

\* ---------------------------------------------------------------- bounds
MaxTextLen == 4      \* longest enumerated text handed to chunk_text
MaxChunkSize == 3    \* largest enumerated chunk_size
MaxOverlap == 3      \* largest enumerated overlap (exceeds MaxChunkSize: clamping happens)

\* ------------------------------------------------------------ characters
Whitespace == {0, 1}
Chars == Whitespace \cup {2, 3}

IsSpace(c) == c \in Whitespace

Min(a, b) == IF a < b THEN a ELSE b

RECURSIVE SeqsUpTo(_, _)
\* all sequences over S of length at most n
SeqsUpTo(S, n) ==
  IF n = 0 THEN {<<>>}
  ELSE LET shorter == SeqsUpTo(S, n - 1)
       IN shorter \cup {Append(s, c) : s \in {t \in shorter : Len(t) = n - 1}, c \in S}

\* Python slice text[start:end] for 0 <= start (end may exceed len(text))
Slice(text, start, end) == SubSeq(text, start + 1, Min(end, Len(text)))

RECURSIVE LStrip(_)
\* str.lstrip(): drop leading whitespace
LStrip(text) ==
  IF text /= <<>> /\ IsSpace(Head(text)) THEN LStrip(Tail(text)) ELSE text

RECURSIVE RStrip(_)
\* str.rstrip(): drop trailing whitespace
RStrip(text) ==
  IF text /= <<>> /\ IsSpace(text[Len(text)])
  THEN RStrip(SubSeq(text, 1, Len(text) - 1)) ELSE text

\* str.strip(): drop leading and trailing whitespace
Strip(text) == RStrip(LStrip(text))

\* ------------------------------------------------------------ chunk_text
\* document_processor.py:65  overlap = min(overlap, chunk_size - 1)
ClampOverlapOffByOne(overlap, chunk_size) == Min(overlap, chunk_size)
ClampOverlap(overlap, chunk_size) == Min(overlap, chunk_size - 1)

\* document_processor.py:75  "if chunk.strip():" keeps the window
KeepChunkAlways(chunk) == TRUE
KeepChunk(chunk) == Strip(chunk) /= <<>>

\* document_processor.py:79  start = end - overlap
NextStartNoOverlap(end, overlap) == end
NextStart(end, overlap) == end - overlap

\* the loop body with "chunks.append(chunk.strip())" in place of line 76
ChunkLoopBodyStripped(text, chunk_size, overlap, start, chunks) ==
  LET end == start + chunk_size
      chunk == Slice(text, start, end)
  IN [start |-> NextStart(end, overlap),
      chunks |-> IF KeepChunk(chunk) THEN Append(chunks, Strip(chunk)) ELSE chunks]

\* One iteration of the while loop body (lines 71-79): the new (start, chunks)
ChunkLoopBody(text, chunk_size, overlap, start, chunks) ==
  LET end == start + chunk_size
      chunk == Slice(text, start, end)
  IN [start |-> NextStart(end, overlap),
      chunks |-> IF KeepChunk(chunk) THEN Append(chunks, chunk) ELSE chunks]

RECURSIVE ChunkLoop(_, _, _, _, _)
\* the while loop of lines 70-83 run to completion
ChunkLoop(text, chunk_size, overlap, start, chunks) ==
  IF start < Len(text)
  THEN LET b == ChunkLoopBody(text, chunk_size, overlap, start, chunks)
       IN ChunkLoop(text, chunk_size, overlap, b.start, b.chunks)
  ELSE chunks

\* chunk_text(text, chunk_size, overlap) as a function of its arguments
chunk_text(text, chunk_size, overlap) ==
  ChunkLoop(text, chunk_size, ClampOverlap(overlap, chunk_size), 0, <<>>)

\* ------------------------------------------- generate_answer_streaming
\* A server line is blank, not parseable as JSON ("bad"), or a JSON object
\* with an optional "response" text (absent = empty) and an optional "done"
\* flag (absent = FALSE).
Fragments == {<<>>, <<2>>, <<3>>}
Lines ==
  {[kind |-> "blank", response |-> <<>>, done |-> FALSE],
   [kind |-> "bad", response |-> <<>>, done |-> FALSE]}
  \cup {[kind |-> "json", response |-> r, done |-> d] : r \in Fragments, d \in BOOLEAN}

\* the loop body with the done test of lines 84-85 moved before the yield
StreamLineBodyDoneFirst(line, yielded) ==
  IF line.kind /= "json" THEN [yielded |-> yielded, stop |-> FALSE]
  ELSE IF line.done THEN [yielded |-> yielded, stop |-> TRUE]
  ELSE [yielded |-> IF line.response /= <<>> THEN Append(yielded, line.response)
                    ELSE yielded,
        stop |-> FALSE]

\* embedding.py:76-88: one iteration of "for line in response.iter_lines()":
\* the fragments yielded so far and whether the loop breaks
StreamLineBody(line, yielded) ==
  IF line.kind = "blank" THEN [yielded |-> yielded, stop |-> FALSE]
  ELSE IF line.kind = "bad" THEN [yielded |-> yielded, stop |-> FALSE]
  ELSE [yielded |-> IF line.response /= <<>> THEN Append(yielded, line.response)
                    ELSE yielded,
        stop |-> line.done]

RECURSIVE StreamLoop(_, _, _)
\* embedding.py:75-88 run to completion from line number pos
StreamLoop(lines, pos, yielded) ==
  IF pos > Len(lines) THEN yielded
  ELSE LET b == StreamLineBody(lines[pos], yielded)
       IN IF b.stop THEN b.yielded ELSE StreamLoop(lines, pos + 1, b.yielded)

\* the fragments generate_answer_streaming yields over the server's lines
generate_answer_streaming(lines) == StreamLoop(lines, 1, <<>>)

RECURSIVE Flatten(_)
\* app.py:149-150: answer += chunk for every fragment
Flatten(ss) == IF ss = <<>> THEN <<>> ELSE Head(ss) \o Flatten(Tail(ss))

\* ----------------------------------------------------- read_uploaded_file
Newline == 1
BadByte == 255   \* a byte that is not valid UTF-8

RECURSIVE Join(_, _)
\* sep.join(parts)
Join(parts, sep) ==
  IF parts = <<>> THEN <<>>
  ELSE IF Len(parts) = 1 THEN parts[1]
  ELSE parts[1] \o sep \o Join(Tail(parts), sep)

\* document_processor.py:42-44
read_text(file) ==
  IF \E i \in 1..Len(file.bytes) : file.bytes[i] = BadByte
  THEN [ok |-> FALSE, text |-> <<>>]
  ELSE [ok |-> TRUE, text |-> Strip(file.bytes)]

\* document_processor.py:28-39 (a page without text extracts as "")
read_pdf(file) ==
  IF ~file.valid_pdf THEN [ok |-> FALSE, text |-> <<>>]
  ELSE [ok |-> TRUE, text |-> Strip(Join(file.pages, <<Newline>>))]

\* document_processor.py:12-25
read_uploaded_file(file) ==
  IF file.type = "application/pdf" THEN read_pdf(file) ELSE read_text(file)

\* ------------------------------------------------------- process_document
\* the configured CHUNK_SIZE and CHUNK_OVERLAP of the application runs
CfgChunkSize == 2
CfgChunkOverlap == 0

\* embedding.py:11-30: the vector of a text, as an opaque value
get_embedding(text) == [embedding_of |-> text]

\* document_processor.py:88-115 (the timestamp is not modelled)
create_chunk_metadata(chunk, chunk_index, total, source_file_name, file_type) ==
  [text |-> chunk, source_file |-> source_file_name, chunk_index |-> chunk_index,
   total_chunks |-> total, file_type |-> file_type]

\* the chunks process_document cuts a file into (<<>> if it is not read)
DocChunks(file) ==
  LET ext == read_uploaded_file(file)
  IN IF ext.ok /\ ext.text /= <<>>
     THEN chunk_text(ext.text, CfgChunkSize, CfgChunkOverlap) ELSE <<>>

Returned(vectors, metadata_list, chunk_count, embed_calls) ==
  [raised |-> FALSE, stage |-> "none", vectors |-> vectors,
   metadata_list |-> metadata_list, chunk_count |-> chunk_count,
   embed_calls |-> embed_calls]
Raised(stage, embed_calls) ==
  [raised |-> TRUE, stage |-> stage, vectors |-> <<>>, metadata_list |-> <<>>,
   chunk_count |-> 0, embed_calls |-> embed_calls]

\* process_document with "if not text: raise" in place of lines 132-133
process_document_empty_raises(file, fail_at) ==
  LET ext == read_uploaded_file(file)
      chunks == DocChunks(file)
  IN IF ~ext.ok \/ ext.text = <<>> THEN Raised("extract", 0)
     ELSE IF fail_at \in 1..Len(chunks) THEN Raised("embed", fail_at)
     ELSE Returned([k \in 1..Len(chunks) |-> get_embedding(chunks[k])],
                   [k \in 1..Len(chunks) |->
                      create_chunk_metadata(chunks[k], k - 1, Len(chunks),
                                            file.name, file.type)],
                   Len(chunks), Len(chunks))

\* document_processor.py:118-157; fail_at is the number of the embedding call
\* that raises (0: none does)
process_document(file, fail_at) ==
  LET ext == read_uploaded_file(file)
      chunks == DocChunks(file)
  IN IF ~ext.ok THEN Raised("extract", 0)
     ELSE IF ext.text = <<>> THEN Returned(<<>>, <<>>, 0, 0)
     ELSE IF fail_at \in 1..Len(chunks) THEN Raised("embed", fail_at)
     ELSE Returned([k \in 1..Len(chunks) |-> get_embedding(chunks[k])],
                   [k \in 1..Len(chunks) |->
                      create_chunk_metadata(chunks[k], k - 1, Len(chunks),
                                            file.name, file.type)],
                   Len(chunks), Len(chunks))

\* ------------------------------------------------------------ VectorStore
\* an identifier derived from the position of the chunk in its document
PointIdByPosition(next, k) == k
\* vectorstore.py:45: the k-th uuid4 of a call, next counting the identifiers
\* handed out before (uuid4 never repeats an identifier)
PointId(next, k) == next + k - 1

\* vectorstore.py:43-52: the points of zip(vectors, payloads)
NewPoints(vectors, payloads, next) ==
  {[id |-> PointId(next, k), vector |-> vectors[k], payload |-> payloads[k]] :
     k \in 1..Min(Len(vectors), Len(payloads))}

\* vectorstore.py:54-57: client.upsert replaces a point that has the same id
Upserted(stored, new) ==
  {p \in stored : \A n \in new : n.id /= p.id} \cup new

Ids(ps) == {p.id : p \in ps}

TOP_K == 3

\* vectorstore.py:60-77: the possible results of client.search: the limit
\* best-scoring points, best first; every ranking of stored points is possible
SearchResults(stored, limit) ==
  LET n == Min(limit, Cardinality(stored))
  IN {h \in [1..n -> stored] : \A a, b \in 1..n : a /= b => h[a] /= h[b]}

\* --------------------------------------------------------- build_rag_prompt
\* the fixed pieces of the template (embedding.py:104-108)
INSTRUCTIONS == 100
CONTEXT_LABEL == 101
QUESTION_LABEL == 102
ANSWER_CUE == 103

RECURSIVE Reverse(_)
Reverse(s) == IF s = <<>> THEN <<>> ELSE Append(Reverse(Tail(s)), Head(s))

\* build_rag_prompt joining the chunks last first
build_rag_prompt_reversed(question, context_chunks) ==
  <<INSTRUCTIONS, CONTEXT_LABEL>> \o Join(Reverse(context_chunks), <<Newline, Newline>>)
    \o <<Newline, Newline, QUESTION_LABEL>> \o question
    \o <<Newline, Newline, ANSWER_CUE>>

\* embedding.py:91-109
build_rag_prompt(question, context_chunks) ==
  <<INSTRUCTIONS, CONTEXT_LABEL>> \o Join(context_chunks, <<Newline, Newline>>)
    \o <<Newline, Newline, QUESTION_LABEL>> \o question
    \o <<Newline, Newline, ANSWER_CUE>>

\* app.py:138
ContextChunks(hits) == [k \in 1..Len(hits) |-> hits[k].payload.text]

VARIABLES
  ct,              \* one activation of chunk_text: arguments, locals and position
  gs,              \* one activation of generate_answer_streaming and its consumer
  points,          \* the records of the Qdrant collection
  nextId,          \* number of identifiers uuid4 has handed out, plus one
  uploaded_files,  \* the files selected in the uploader widget
  query,           \* the value of the question text input
  event,           \* what started the script run: a button click, or st.rerun()
  pc,              \* position of the Streamlit script run
  idx,             \* index of the file the upload loop is at
  total_chunks,    \* app.py:57
  errors,          \* app.py:58
  docs,            \* what happened to each file of the run's loop so far (history)
  metric,          \* the "Vectors Stored" figure last shown
  ask              \* outcome of the Ask handler of the run

chunkVars == <<ct>>
streamVars == <<gs>>
appVars == <<points, nextId, uploaded_files, query, event, pc, idx, total_chunks,
             errors, docs, metric, ask>>
vars == <<ct, gs, points, nextId, uploaded_files, query, event, pc, idx,
          total_chunks, errors, docs, metric, ask>>

\* --------------------------------------------------------- initial values
GsIdle == [pc |-> "idle", lines |-> <<>>, pos |-> 1, yielded |-> <<>>, answer |-> <<>>]

AskNone ==
  [outcome |-> "none", hits |-> <<>>, prompt |-> <<>>, gen_called |-> FALSE,
   answer |-> <<>>]

\* app.py:28-31: a session on a collection that holds nothing yet, no file
\* selected, no question typed
AppInit ==
  /\ points = {}
  /\ nextId = 1
  /\ uploaded_files = <<>>
  /\ query = <<>>
  /\ event = "none"
  /\ pc = "idle"
  /\ idx = 1
  /\ total_chunks = 0
  /\ errors = <<>>
  /\ docs = <<>>
  /\ metric = 0
  /\ ask = AskNone

\* a 1200-character text of distinct printing characters, to be chunked
\* with the configured defaults (config.py:30-31)
CHUNK_SIZE == 500
CHUNK_OVERLAP == 50
ExampleText == [i \in 1..1200 |-> i + 3]

CtIdle ==
  [pc |-> "idle", text |-> <<>>, chunk_size |-> 1,
   overlap_arg |-> 0, overlap |-> 0, start |-> 0, chunks |-> <<>>]

InitChunk == ct = CtIdle /\ gs = GsIdle /\ AppInit

\* lines 47-68: the call with its arguments; clamp the overlap, chunks = [], start = 0
ChunkTextEnter(text, chunk_size, overlap) ==
  /\ ct.pc = "idle"
  /\ ct' = [pc |-> "loop", text |-> text, chunk_size |-> chunk_size,
            overlap_arg |-> overlap,
            overlap |-> ClampOverlap(overlap, chunk_size),
            start |-> 0, chunks |-> <<>>]
  /\ UNCHANGED <<gs, appVars>>

Texts == SeqsUpTo(Chars, MaxTextLen)

ChunkTextCall ==
  /\ ct.pc = "idle"
  /\ \E text \in Texts, chunk_size \in 1..MaxChunkSize, overlap \in 0..MaxOverlap :
       ChunkTextEnter(text, chunk_size, overlap)

\* lines 59-62: the call on the example text with the configured defaults
ChunkTextCallDefaults ==
  ChunkTextEnter(ExampleText, CHUNK_SIZE, CHUNK_OVERLAP)

\* lines 70-83: one iteration of the loop, with the break of lines 82-83
ChunkTextIter ==
  /\ ct.pc = "loop"
  /\ ct.start < Len(ct.text)
  /\ LET b == ChunkLoopBody(ct.text, ct.chunk_size, ct.overlap, ct.start, ct.chunks)
     IN ct' = [ct EXCEPT !.start = b.start, !.chunks = b.chunks,
                         !.pc = IF b.start >= Len(ct.text) THEN "done" ELSE "loop"]
  /\ UNCHANGED <<gs, appVars>>

\* line 70 false on entry (empty text), line 85: return chunks
ChunkTextReturn ==
  /\ ct.pc = "loop"
  /\ ~(ct.start < Len(ct.text))
  /\ ct' = [ct EXCEPT !.pc = "done"]
  /\ UNCHANGED <<gs, appVars>>

NextChunk == ChunkTextCall \/ ChunkTextCallDefaults \/ ChunkTextIter \/ ChunkTextReturn

\* a call that was made runs on: the loop is not suspended
SpecChunk == InitChunk /\ [][NextChunk]_vars /\ WF_vars(ChunkTextIter \/ ChunkTextReturn)

\* ------------------------------------------ generate_answer_streaming, run
MaxLines == 4     \* longest enumerated sequence of server lines

Streams == SeqsUpTo(Lines, MaxLines)

InitStream == ct = CtIdle /\ gs = GsIdle /\ AppInit

\* embedding.py:68-73 and app.py:146: the request is answered with a stream of
\* lines, and the consumer starts with an empty answer
StreamCall ==
  /\ gs.pc = "idle"
  /\ \E lines \in Streams :
       gs' = [pc |-> "iter", lines |-> lines, pos |-> 1, yielded |-> <<>>,
              answer |-> <<>>]
  /\ UNCHANGED <<ct, appVars>>

\* embedding.py:73: raise_for_status raises, nothing is yielded
StreamCallFails ==
  /\ gs.pc = "idle"
  /\ gs' = [gs EXCEPT !.pc = "raised"]
  /\ UNCHANGED <<ct, appVars>>

\* embedding.py:75-88 with app.py:149-150: the next line is read; a fragment
\* it yields is appended to the answer; a done line ends the stream
StreamLine ==
  /\ gs.pc = "iter"
  /\ gs.pos <= Len(gs.lines)
  /\ LET b == StreamLineBody(gs.lines[gs.pos], gs.yielded)
     IN gs' = [gs EXCEPT !.yielded = b.yielded,
                         !.answer = Flatten(b.yielded),
                         !.pos = gs.pos + 1,
                         !.pc = IF b.stop THEN "done" ELSE "iter"]
  /\ UNCHANGED <<ct, appVars>>

\* embedding.py:75: the lines are exhausted, the generator returns
StreamEnd ==
  /\ gs.pc = "iter"
  /\ gs.pos > Len(gs.lines)
  /\ gs' = [gs EXCEPT !.pc = "done"]
  /\ UNCHANGED <<ct, appVars>>

NextStream == StreamCall \/ StreamCallFails \/ StreamLine \/ StreamEnd

\* the consumer (app.py:149) takes every fragment: the loop is not suspended
SpecStream == InitStream /\ [][NextStream]_vars /\ WF_vars(StreamLine \/ StreamEnd)

\* ------------------------------------------------------ the Streamlit script
MaxBatch == 2     \* most files selected in the uploader at once
MaxIds == 4       \* identifiers uuid4 hands out before the model stops ingesting
MaxAskLines == 1  \* longest stream of server lines answering a question

TxtFile(name, bytes) ==
  [name |-> name, type |-> "text/plain", bytes |-> bytes, valid_pdf |-> FALSE,
   pages |-> <<>>]
PdfFile(name, valid, pages) ==
  [name |-> name, type |-> "application/pdf", bytes |-> <<>>, valid_pdf |-> valid,
   pages |-> pages]

\* the files a user may select: text files that strip to nothing, to a text
\* of two chunks, or do not decode; PDFs that do not parse, have a page
\* without text, or have two pages of text
Files ==
  {TxtFile("blank.txt", <<0, 1>>),
   TxtFile("note.txt", <<0, 2, 3, 2, 1>>),
   TxtFile("latin1.txt", <<2, BadByte>>),
   PdfFile("scan.pdf", TRUE, <<<<>>>>),
   PdfFile("broken.pdf", FALSE, <<>>),
   PdfFile("paper.pdf", TRUE, <<<<2>>, <<3, 3>>>>)}

Batches == SeqsUpTo(Files, MaxBatch)
Queries == {<<>>, <<2, 3>>}
\* the lines of the streams that answer a question: a fragment, and a final
\* fragment flagged done
AskLines ==
  {[kind |-> "json", response |-> <<2>>, done |-> FALSE],
   [kind |-> "json", response |-> <<3>>, done |-> TRUE]}
AskStreams == SeqsUpTo(AskLines, MaxAskLines)

InitApp == ct = CtIdle /\ gs = GsIdle /\ AppInit

\* app.py:25-58: the script starts over; the locals of the run are fresh
StartRun(files) ==
  /\ pc' = IF files /= <<>> THEN "upload" ELSE "sidebar"
  /\ idx' = 1
  /\ total_chunks' = 0
  /\ errors' = <<>>
  /\ docs' = <<>>
  /\ ask' = AskNone

\* app.py:47-52: the user changes the selection of the uploader
UserSelectsFiles ==
  /\ pc = "idle"
  /\ \E batch \in Batches :
       /\ batch /= uploaded_files
       /\ uploaded_files' = batch
       /\ StartRun(batch)
  /\ event' = "none"
  /\ UNCHANGED <<ct, gs, points, nextId, query, metric>>

\* app.py:100: the user clicks "Clear All Data"
UserClicksClear ==
  /\ pc = "idle"
  /\ event' = "clear"
  /\ StartRun(uploaded_files)
  /\ UNCHANGED <<ct, gs, points, nextId, uploaded_files, query, metric>>

\* app.py:119-126: the user types a question (possibly none) and clicks "Ask"
UserClicksAsk ==
  /\ pc = "idle"
  /\ \E q \in Queries : query' = q
  /\ event' = "ask"
  /\ StartRun(uploaded_files)
  /\ UNCHANGED <<ct, gs, points, nextId, uploaded_files, metric>>

\* index of the file the loop turns to after file i, with the try/except
\* around the whole loop: the first exception ends the loop
NextFileAbortOnError(i, raised, n) == IF raised THEN n + 1 ELSE i + 1
\* app.py:60-76: the try/except is inside the loop, the next file is next
NextFile(i, raised, n) == i + 1

\* what the loop records about a file (history of the run)
DocEntry(file, r, upsert_called, upsert_raised, ids, before) ==
  [file |-> file,
   raised |-> r.raised \/ upsert_raised,
   stage |-> IF upsert_raised THEN "upsert" ELSE r.stage,
   chunk_count |-> r.chunk_count,
   embed_calls |-> r.embed_calls,
   upsert_called |-> upsert_called,
   ids |-> ids,
   before |-> before]

ErrorEntry(level, file, i) == [level |-> level, name |-> file.name, doc |-> i]

\* app.py:60-76: one iteration of "for file in uploaded_files"
ProcessFile ==
  /\ pc = "upload"
  /\ idx <= Len(uploaded_files)
  /\ LET file == uploaded_files[idx]
         n == Len(DocChunks(file))
     IN /\ nextId + n - 1 <= MaxIds
        /\ \E fail_at \in 0..n, upsert_ok \in BOOLEAN :
             LET r == process_document(file, fail_at)
                 new == NewPoints(r.vectors, r.metadata_list, nextId)
             IN \/ /\ r.raised                        \* lines 75-76
                   /\ upsert_ok
                   /\ errors' = Append(errors, ErrorEntry("error", file, idx))
                   /\ docs' = Append(docs, DocEntry(file, r, FALSE, FALSE, {}, points))
                   /\ idx' = NextFile(idx, TRUE, Len(uploaded_files))
                   /\ UNCHANGED <<points, nextId, total_chunks>>
                \/ /\ ~r.raised /\ r.chunk_count > 0 /\ upsert_ok   \* lines 68-71
                   /\ points' = Upserted(points, new)
                   /\ nextId' = nextId + Cardinality(new)
                   /\ total_chunks' = total_chunks + r.chunk_count
                   /\ docs' = Append(docs, DocEntry(file, r, TRUE, FALSE, Ids(new), points))
                   /\ idx' = NextFile(idx, FALSE, Len(uploaded_files))
                   /\ UNCHANGED errors
                \/ /\ ~r.raised /\ r.chunk_count > 0 /\ ~upsert_ok  \* line 70 raises
                   /\ errors' = Append(errors, ErrorEntry("error", file, idx))
                   /\ docs' = Append(docs, DocEntry(file, r, TRUE, TRUE, {}, points))
                   /\ idx' = NextFile(idx, TRUE, Len(uploaded_files))
                   /\ UNCHANGED <<points, nextId, total_chunks>>
                \/ /\ ~r.raised /\ r.chunk_count = 0 /\ upsert_ok   \* lines 72-73
                   /\ errors' = Append(errors, ErrorEntry("warning", file, idx))
                   /\ docs' = Append(docs, DocEntry(file, r, FALSE, FALSE, {}, points))
                   /\ idx' = NextFile(idx, FALSE, Len(uploaded_files))
                   /\ UNCHANGED <<points, nextId, total_chunks>>
  /\ pc' = IF idx' > Len(uploaded_files) THEN "sidebar" ELSE "upload"
  /\ UNCHANGED <<ct, gs, uploaded_files, query, event, metric, ask>>

\* app.py:78-97: the results are shown and the record count is read
ShowSidebar ==
  /\ pc = "sidebar"
  /\ metric' = Cardinality(points)
  /\ pc' = "buttons"
  /\ UNCHANGED <<ct, gs, points, nextId, uploaded_files, query, event, idx,
                 total_chunks, errors, docs, ask>>

\* vectorstore.py:79-82
clear_collection(stored) == {}

\* app.py:100-103: clear the collection and rerun the script
ClearHandler ==
  /\ pc = "buttons"
  /\ event = "clear"
  /\ points' = clear_collection(points)
  /\ event' = "rerun"        \* line 103: st.rerun(), no button is clicked
  /\ StartRun(uploaded_files)
  /\ UNCHANGED <<ct, gs, nextId, uploaded_files, query, metric>>

\* the Ask handler without the test of line 134
AskOutcomeAlwaysGenerates(q, hits, gen_ok, lines) ==
  [outcome |-> IF gen_ok THEN "answered" ELSE "gen_error",
   hits |-> hits,
   prompt |-> build_rag_prompt(q, ContextChunks(hits)),
   gen_called |-> TRUE,
   answer |-> IF gen_ok THEN Flatten(generate_answer_streaming(lines)) ELSE <<>>]

\* app.py:134-157: what the handler does with the hits of the search
AskOutcome(q, hits, gen_ok, lines) ==
  IF hits = <<>>
  THEN [outcome |-> "no_context", hits |-> hits, prompt |-> <<>>,
        gen_called |-> FALSE, answer |-> <<>>]
  ELSE [outcome |-> IF gen_ok THEN "answered" ELSE "gen_error",
        hits |-> hits,
        prompt |-> build_rag_prompt(q, ContextChunks(hits)),
        gen_called |-> TRUE,
        answer |-> IF gen_ok THEN Flatten(generate_answer_streaming(lines)) ELSE <<>>]

\* app.py:126-174: the Ask handler
AskHandler ==
  /\ pc = "buttons"
  /\ event = "ask"
  /\ query /= <<>>
  /\ \/ ask' = [AskNone EXCEPT !.outcome = "exception"]     \* line 129 or 132 raises
     \/ \E hits \in SearchResults(points, TOP_K), gen_ok \in BOOLEAN,
           lines \in AskStreams :
          /\ ~gen_ok => lines = <<>>
          /\ ask' = AskOutcome(query, hits, gen_ok, lines)
  /\ event' = "none"
  /\ pc' = "footer"
  /\ UNCHANGED <<ct, gs, points, nextId, uploaded_files, query, idx,
                 total_chunks, errors, docs, metric>>

\* app.py:100 and 126 both false: no button of the run is left to handle
NoHandler ==
  /\ pc = "buttons"
  /\ event /= "clear"
  /\ ~(event = "ask" /\ query /= <<>>)
  /\ event' = "none"
  /\ pc' = "footer"
  /\ UNCHANGED <<ct, gs, points, nextId, uploaded_files, query, idx,
                 total_chunks, errors, docs, metric, ask>>

\* app.py:176-186: the footer is drawn (unless an exception stopped the run)
\* and the script run ends; its locals are gone, the session waits for the
\* next interaction
RunEnds ==
  /\ pc = "footer"
  /\ pc' = "idle"
  /\ idx' = 1
  /\ total_chunks' = 0
  /\ errors' = <<>>
  /\ docs' = <<>>
  /\ ask' = AskNone
  /\ UNCHANGED <<ct, gs, points, nextId, uploaded_files, query, event, metric>>

Next ==
  \/ UserSelectsFiles
  \/ UserClicksClear
  \/ UserClicksAsk
  \/ ProcessFile
  \/ ShowSidebar
  \/ ClearHandler
  \/ AskHandler
  \/ NoHandler
  \/ RunEnds

Spec == InitApp /\ [][Next]_vars

\* ------------------------------------------------- properties of chunk_text
HasInk(text) == \E i \in 1..Len(text) : ~IsSpace(text[i])

FirstN(s, n) == SubSeq(s, 1, Min(n, Len(s)))
LastN(s, n) == SubSeq(s, IF Len(s) - n + 1 < 1 THEN 1 ELSE Len(s) - n + 1, Len(s))

RECURSIVE ConcatHeads(_, _)
\* the first n characters of each sequence of ss, concatenated in order
ConcatHeads(ss, n) ==
  IF ss = <<>> THEN <<>> ELSE FirstN(Head(ss), n) \o ConcatHeads(Tail(ss), n)

\* the reference windowing: window k is text[k*step : k*step + chunk_size]
RefStep(chunk_size, overlap) ==
  chunk_size - (IF overlap >= chunk_size THEN chunk_size - 1 ELSE overlap)
RefWindow(text, chunk_size, overlap, k) ==
  [i \in 1..(Min(k * RefStep(chunk_size, overlap) + chunk_size, Len(text))
               - k * RefStep(chunk_size, overlap))
     |-> text[k * RefStep(chunk_size, overlap) + i]]
RefIndices(text, chunk_size, overlap) ==
  {k \in 0..Len(text) : k * RefStep(chunk_size, overlap) < Len(text)}
RefKept(text, chunk_size, overlap) ==
  {k \in RefIndices(text, chunk_size, overlap) :
     HasInk(RefWindow(text, chunk_size, overlap, k))}
RefWindows(text, chunk_size, overlap) ==
  LET kept == RefKept(text, chunk_size, overlap)
  IN [n \in 1..Cardinality(kept) |->
        RefWindow(text, chunk_size, overlap,
                  CHOOSE k \in kept : Cardinality({j \in kept : j < k}) = n - 1)]
NoWindowDropped(text, chunk_size, overlap) ==
  RefKept(text, chunk_size, overlap) = RefIndices(text, chunk_size, overlap)

CtDone == ct.pc = "done"

\* C3: chunk_text terminates for every text, chunk_size > 0 and overlap >= 0:
\* the cursor advances by at least 1 on every iteration of the loop (the
\* overlap being clamped to chunk_size - 1) and every call reaches its return.
C3_ChunkTextTerminates ==
  /\ [][(ct.pc = "loop" /\ ct.start < Len(ct.text)) => ct'.start >= ct.start + 1]_vars
  /\ (ct.pc = "loop") ~> CtDone

C3_Witness ==
  /\ CtDone
  /\ ct.overlap_arg >= ct.chunk_size
  /\ ct.overlap = ct.chunk_size - 1
  /\ Len(ct.chunks) >= 3

\* C4 as stated: every non-empty text shorter than chunk_size, with any valid
\* overlap, comes back as exactly one chunk, the whole text.
C4_Original ==
  (CtDone /\ ct.text /= <<>> /\ Len(ct.text) < ct.chunk_size
          /\ ct.overlap_arg < ct.chunk_size)
    => ct.chunks = <<ct.text>>

\* C4 amended: every text with at least one non-whitespace character whose
\* length is smaller than chunk_size and at most chunk_size - overlap comes
\* back as exactly one chunk, the whole text.
C4_SingleChunk ==
  (CtDone /\ HasInk(ct.text) /\ Len(ct.text) < ct.chunk_size
          /\ ct.overlap_arg < ct.chunk_size
          /\ Len(ct.text) <= ct.chunk_size - ct.overlap_arg)
    => ct.chunks = <<ct.text>>

C4_Witness ==
  /\ CtDone /\ HasInk(ct.text) /\ Len(ct.text) = 2 /\ IsSpace(ct.text[1])
  /\ ct.chunk_size = 3 /\ ct.overlap_arg = 1
  /\ ct.chunks = <<ct.text>>

\* C5 as stated: for 0 <= overlap < chunk_size, the last `overlap` characters
\* of every returned chunk equal the first `overlap` characters of the next
\* returned chunk, and the first chunk_size - overlap characters of the
\* chunks, concatenated in order, are the text.
C5_Original ==
  (CtDone /\ ct.overlap_arg < ct.chunk_size) =>
    /\ \A i \in 1..(Len(ct.chunks) - 1) :
         LastN(ct.chunks[i], ct.overlap_arg) = FirstN(ct.chunks[i + 1], ct.overlap_arg)
    /\ ConcatHeads(ct.chunks, ct.chunk_size - ct.overlap_arg) = ct.text

\* C5 amended: for 0 <= overlap < chunk_size and a text none of whose windows
\* is whitespace-only, the last `overlap` characters of every returned chunk
\* of full length chunk_size equal the first `overlap` characters of the next
\* returned chunk, and the first chunk_size - overlap characters of the
\* chunks, concatenated in order, are the text.
C5_OverlapNoGaps ==
  (CtDone /\ ct.overlap_arg < ct.chunk_size
          /\ NoWindowDropped(ct.text, ct.chunk_size, ct.overlap_arg)) =>
    /\ \A i \in 1..(Len(ct.chunks) - 1) :
         Len(ct.chunks[i]) = ct.chunk_size =>
           LastN(ct.chunks[i], ct.overlap_arg) = FirstN(ct.chunks[i + 1], ct.overlap_arg)
    /\ ConcatHeads(ct.chunks, ct.chunk_size - ct.overlap_arg) = ct.text

C5_Witness ==
  /\ CtDone /\ ct.overlap_arg = 1 /\ ct.chunk_size = 3
  /\ NoWindowDropped(ct.text, ct.chunk_size, ct.overlap_arg)
  /\ Len(ct.chunks) = 2
  /\ Len(ct.chunks[1]) = 3 /\ Len(ct.chunks[2]) = 2
  /\ ct.chunks[1][3] /= ct.chunks[1][2]
  /\ ct.chunks[1][3] = ct.chunks[2][1]

\* C6: chunk_text returns, in increasing order of k, the windows
\* text[k*step : k*step + chunk_size] with k*step < len(text) that contain a
\* non-whitespace character, each in its untrimmed form, where step is
\* chunk_size minus the clamped overlap; the 1200-character example with
\* chunk_size 500 and overlap 50 gives the windows at 0, 450 and 900.
C6_ReferenceWindowing ==
  CtDone =>
    /\ ct.chunks = RefWindows(ct.text, ct.chunk_size, ct.overlap_arg)
    /\ (ct.text = ExampleText /\ ct.chunk_size = 500 /\ ct.overlap_arg = 50) =>
         /\ Len(ct.chunks) = 3
         /\ \A n \in 1..3 :
              /\ Len(ct.chunks[n]) <= 500
              /\ ct.chunks[n][1] = ExampleText[(n - 1) * 450 + 1]
         /\ SubSeq(ct.chunks[1], 451, 500) = SubSeq(ct.chunks[2], 1, 50)

C6_Witness ==
  /\ CtDone
  /\ ct.overlap_arg > ct.chunk_size
  /\ ~NoWindowDropped(ct.text, ct.chunk_size, ct.overlap_arg)
  /\ Len(ct.chunks) = 2
  /\ IsSpace(ct.chunks[1][1])

\* ------------------------------ properties of generate_answer_streaming
\* number of the first line flagged done (one past the end if there is none)
FirstDone(lines) ==
  LET flagged == {i \in 1..Len(lines) : lines[i].kind = "json" /\ lines[i].done}
  IN IF flagged = {} THEN Len(lines) + 1
     ELSE CHOOSE i \in flagged : \A j \in flagged : i <= j

\* the non-empty fragments of the well-formed lines up to the first done line
ExpectedFragments(lines) ==
  LET src == {i \in 1..Len(lines) :
                /\ i <= FirstDone(lines)
                /\ lines[i].kind = "json"
                /\ lines[i].response /= <<>>}
  IN [n \in 1..Cardinality(src) |->
        lines[CHOOSE i \in src : Cardinality({j \in src : j < i}) = n - 1].response]

ErrorsOf(j) == {e \in 1..Len(errors) : errors[e].doc = j}

\* the file's extraction or one of its embedding calls raised
FailedBeforeUpsert(d) == d.stage \in {"extract", "embed"}

\* the upload loop of the run is over
LoopOver == pc \in {"sidebar", "buttons", "footer"}

\* C1: a file whose extraction or embedding raises is never handed to
\* upsert_vectors, leaves the collection as it was and gets exactly one error
\* entry; the loop still goes through every file of the batch, and the
\* records of the files stored earlier in the batch stay in the collection.
C1_AllOrNothingPerDocument ==
  /\ \A j \in 1..Len(docs) :
       /\ FailedBeforeUpsert(docs[j]) =>
            /\ ~docs[j].upsert_called
            /\ docs[j].ids = {}
            /\ j = Len(docs) => points = docs[j].before
            /\ Cardinality(ErrorsOf(j)) = 1
            /\ \A e \in ErrorsOf(j) : errors[e].level = "error"
       /\ \A id \in docs[j].ids :
            \E p \in points : p.id = id /\ p.payload.source_file = docs[j].file.name
       /\ docs[j].file = uploaded_files[j]
  /\ pc = "upload" => Len(docs) = idx - 1
  /\ LoopOver => Len(docs) = Len(uploaded_files)

C1_Witness ==
  /\ pc = "sidebar"
  /\ Len(docs) = 2
  /\ docs[1].stage = "embed" /\ docs[1].embed_calls = 2
  /\ docs[2].ids /= {}
  /\ Cardinality(points) = 2

\* the file was stored: upsert_vectors was called and returned
Stored(d) == d.upsert_called /\ ~d.raised

\* C2: a stored file with n chunks adds exactly n records, one per chunk,
\* under identifiers that were not in the collection, and leaves the records
\* that were there unchanged; the same file stored twice in a batch has 2*n
\* records in the collection.
C2_AccumulatesNeverDeduplicates ==
  /\ \A j \in 1..Len(docs) :
       Stored(docs[j]) =>
         /\ Cardinality(docs[j].ids) = docs[j].chunk_count
         /\ docs[j].chunk_count = Len(DocChunks(docs[j].file))
         /\ docs[j].ids \cap Ids(docs[j].before) = {}
         /\ docs[j].ids \subseteq Ids(points)
         /\ j = Len(docs) =>
              /\ docs[j].before \subseteq points
              /\ Cardinality(points) = Cardinality(docs[j].before) + docs[j].chunk_count
              /\ \A k \in 1..docs[j].chunk_count :
                   \E p \in points :
                     /\ p.id \in docs[j].ids
                     /\ p.payload.chunk_index = k - 1
                     /\ p.payload.text = DocChunks(docs[j].file)[k]
  /\ \A j, k \in 1..Len(docs) :
       (j < k /\ Stored(docs[j]) /\ Stored(docs[k]) /\ docs[j].file = docs[k].file) =>
         Cardinality({p \in points : p.id \in docs[j].ids \cup docs[k].ids})
           = 2 * docs[j].chunk_count

C2_Witness ==
  /\ Len(docs) = 2
  /\ Stored(docs[1]) /\ Stored(docs[2])
  /\ docs[1].file = docs[2].file
  /\ docs[1].chunk_count = 2
  /\ Cardinality(points) = 4

\* the extraction of the file succeeds and gives the empty text
ExtractsEmpty(file) ==
  read_uploaded_file(file).ok /\ read_uploaded_file(file).text = <<>>

\* C7: a file whose extracted text is empty is no failure: process_document
\* returns chunk count 0 without raising and without an embedding call,
\* upsert_vectors is not called, the collection stays as it was, and the one
\* entry recorded for the file is the warning, not the error.
C7_EmptyTextIsWarning ==
  \A j \in 1..Len(docs) :
    ExtractsEmpty(docs[j].file) =>
      /\ ~docs[j].raised
      /\ docs[j].chunk_count = 0
      /\ docs[j].embed_calls = 0
      /\ ~docs[j].upsert_called
      /\ docs[j].ids = {}
      /\ j = Len(docs) => points = docs[j].before
      /\ Cardinality(ErrorsOf(j)) = 1
      /\ \A e \in ErrorsOf(j) : errors[e].level = "warning"

C7_Witness ==
  /\ pc = "sidebar"
  /\ Len(docs) = 2
  /\ Stored(docs[1])
  /\ docs[2].file.name = "scan.pdf"
  /\ ExtractsEmpty(docs[2].file)
  /\ points /= {}

\* the search of the Ask handler returned (line 132 was passed)
Searched == ask.outcome \in {"no_context", "answered", "gen_error"}

\* C8: a query whose search returns no hits, as every search of an empty
\* collection does, ends in the no-context outcome: no prompt is built and the
\* generator is not called; the outcome of a failed generation is another
\* one, reached only with hits and after the generator was called.
C8_NoHitsIsNoContext ==
  /\ (Searched /\ ask.hits = <<>>) =>
       /\ ask.outcome = "no_context"
       /\ ask.prompt = <<>>
       /\ ~ask.gen_called
       /\ ask.answer = <<>>
  /\ (Searched /\ points = {}) => ask.hits = <<>>
  /\ ask.outcome = "no_context" => ask.hits = <<>>
  /\ ask.outcome = "gen_error" => (ask.hits /= <<>> /\ ask.gen_called)

C8_Witness ==
  /\ pc = "footer"
  /\ ask.outcome = "no_context"
  /\ points = {}
  /\ uploaded_files /= <<>>

RECURSIVE ContextOffset(_, _)
\* number of prompt characters before the text of hit k
ContextOffset(hits, k) ==
  IF k = 1 THEN 2
  ELSE ContextOffset(hits, k - 1) + Len(hits[k - 1].payload.text) + 2

\* C10: the prompt is the instructions, the context label, the texts of the
\* hits in the order the search returned them with a blank line between two
\* of them, a blank line, the question label and the question, a blank line,
\* and the answer cue: every hit is there once, at its rank.
C10_PromptLayout ==
  ask.gen_called =>
    LET n == Len(ask.hits)
        ctxEnd == ContextOffset(ask.hits, n) + Len(ask.hits[n].payload.text)
    IN /\ ask.prompt[1] = INSTRUCTIONS
       /\ ask.prompt[2] = CONTEXT_LABEL
       /\ \A k \in 1..n :
            /\ \A i \in 1..Len(ask.hits[k].payload.text) :
                 ask.prompt[ContextOffset(ask.hits, k) + i] = ask.hits[k].payload.text[i]
            /\ k < n =>
                 LET sep == ContextOffset(ask.hits, k) + Len(ask.hits[k].payload.text)
                 IN ask.prompt[sep + 1] = Newline /\ ask.prompt[sep + 2] = Newline
       /\ ask.prompt[ctxEnd + 1] = Newline
       /\ ask.prompt[ctxEnd + 2] = Newline
       /\ ask.prompt[ctxEnd + 3] = QUESTION_LABEL
       /\ SubSeq(ask.prompt, ctxEnd + 4, ctxEnd + 3 + Len(query)) = query
       /\ ask.prompt[ctxEnd + 4 + Len(query)] = Newline
       /\ ask.prompt[ctxEnd + 5 + Len(query)] = Newline
       /\ ask.prompt[ctxEnd + 6 + Len(query)] = ANSWER_CUE
       /\ Len(ask.prompt) = ctxEnd + 6 + Len(query)

C10_Witness ==
  /\ pc = "footer"
  /\ ask.outcome = "answered"
  /\ Len(ask.hits) = 3
  /\ ask.hits[1].payload.text /= ask.hits[3].payload.text
  /\ ask.hits[1].payload.chunk_index = 1

\* C11, the part about clear_collection alone: the Clear handler leaves the
\* collection holding zero records when it hands over to the rerun.
C11_ClearEmpties ==
  [][(pc = "buttons" /\ event = "clear") => points' = {}]_vars

\* the run stored file j although the collection held records of that file
\* when the run started
StoredAgain(j) ==
  /\ Stored(docs[j])
  /\ \E p \in docs[1].before : p.payload.source_file = docs[j].file.name

\* C11 as stated: once the Clear handler and the rerun it triggers are past
\* the upload loop the collection still holds zero records, and a run started
\* by the clear's rerun or by a click on Ask does not store again a file that
\* is still selected in the uploader and was ingested before.
C11_Original ==
  /\ (event = "rerun" /\ LoopOver) => points = {}
  /\ event \in {"rerun", "ask"} => \A j \in 1..Len(docs) : ~StoredAgain(j)

\* C11, the first part alone
C11_ZeroAfterClearRerun ==
  (event = "rerun" /\ LoopOver) => points = {}

====
